---- MODULE Spec2Model ----
(***************************************************************************)
(* Model of scripts/copy-issues.go: a one-shot, single-threaded job that   *)
(* pages through the open issues of a source repository, drops the pull    *)
(* requests, and either previews the list (dry run) or creates one issue   *)
(* per fetched issue in the target repository.                             *)
(*                                                                         *)
(* Go strings are modelled as sequences of tokens, so that Sprintf is      *)
(* concatenation and strings.Contains is a search for a token.  The        *)
(* process is cut into steps at its blocking calls (HTTP round trips and   *)
(* time.Sleep); pc is the position of the single thread of control.        *)
(***************************************************************************)
EXTENDS Integers, Sequences, FiniteSets, TLC

\* fetchOpenIssues: perPage := 100
perPage == 100

\* The source serves at most MaxPages - 1 full pages: page MaxPages is short.
MaxPages == 2

\* Records of the source that are chosen freely (issue or pull request), over
\* all pages; a full page is completed with pull-request records up to perPage.
MaxRecords == 5

githubAPIBase == "https://api.github.com"

VARIABLES
  pc,            \* position of the thread of control
  token,         \* main: token (after flag.Parse)
  dryRun,        \* main: dryRun
  sourceRepo,    \* main: sourceRepo
  targetRepo,    \* main: targetRepo
  page,          \* fetchOpenIssues: page
  allIssues,     \* fetchOpenIssues: allIssues
  issues,        \* run: issues (result of fetchOpenIssues; <<>> is nil)
  err,           \* run: the error run returns to main ("nil" if none)
  i,             \* run: index of the copy loop (0-based, as in the code)
  successCount,  \* run: successCount
  errorCount,    \* run: errorCount
  createErr,     \* run: err of the current iteration's createIssue call
  exitCode,      \* exit status of the process (meaningful when pc = "exited")
  log,           \* blocking calls made so far, in order: GET, POST, SLEEP
  out,           \* lines written to standard output, in order
  pages,         \* raw pages decoded so far (as page descriptors)
  outcomes       \* result of each finished createIssue call, in order

vars == <<pc, token, dryRun, sourceRepo, targetRepo, page, allIssues, issues,
          err, i, successCount, errorCount, createErr, exitCode, log, out,
          pages, outcomes>>

----------------------------------------------------------------------------
(* Inputs *)

\* Values of the -source / -target flags: a well-formed owner/repo, and one
\* with an invalid percent escape, which url.Parse (http.NewRequest) rejects.
GoodRepo == "Kong/kongctl"
ForkRepo == "rspurgeon/kongctl"
BadRepo == "Kong/%zz"

\* flag.StringVar(&token, "token", os.Getenv("GITHUB_TOKEN"), ...): the
\* environment variable is the default, a given flag replaces it.
TokenFlag(given, value, env) == IF given THEN value ELSE env

TokenValues == {"", "ghp_x"}

IssueKind == "/issues/"
PullKind == "/pull/"
Kinds == {IssueKind, PullKind}

LabelPool == << [Name |-> "bug", Color |-> "d73a4a"],
                [Name |-> "enhancement", Color |-> "a2eeef"] >>

\* The record the source serves at raw position g (1-based over all pages);
\* kind says whether it is an issue or a pull request.  Issue.State and
\* Issue.User are decoded and never read, and are left out.
SourceRecord(g, kind) ==
  [ Number  |-> g,
    Title   |-> <<"title ", ToString(g)>>,
    Body    |-> IF g % 2 = 0 THEN <<>> ELSE <<"body ", ToString(g)>>,
    Labels  |-> SubSeq(LabelPool, 1, g % 3),
    HTMLURL |-> <<"https://github.com/Kong/kongctl", kind, ToString(g)>> ]

\* Sequences over S of length 0..n
RECURSIVE SeqsUpTo(_, _)
SeqsUpTo(S, n) ==
  IF n = 0 THEN {<<>>}
  ELSE LET shorter == SeqsUpTo(S, n - 1)
       IN shorter \cup {Append(s, x) : s \in {t \in shorter : Len(t) = n - 1}, x \in S}

\* A page descriptor: the kinds of its freely chosen records and whether the
\* page is full (padded with pull requests to perPage records).  The source
\* is the GitHub API asked for per_page=100: it serves at most perPage
\* records on a page.
PageKinds(d) ==
  IF d.full
  THEN d.ks \o [j \in 1..(perPage - Len(d.ks)) |-> PullKind]
  ELSE d.ks

\* The decoded array of page p (1-based): every earlier page was full.
ResponsePage(p, d) ==
  LET ks == PageKinds(d)
  IN [j \in 1..Len(ks) |-> SourceRecord((p - 1) * perPage + j, ks[j])]

\* Number of freely chosen records in the pages served so far
RECURSIVE FreeRecords(_)
FreeRecords(ds) == IF ds = <<>> THEN 0 ELSE Len(Head(ds).ks) + FreeRecords(Tail(ds))

----------------------------------------------------------------------------
(* Pure helpers of the program *)

\* strings.Contains(s, tok) on token sequences
Contains(s, tok) == \E k \in DOMAIN s : s[k] = tok

\* Mutant: keeps the pull requests.
FilterIssuesKeepAll(recs) == recs

\* fetchOpenIssues: the filter loop over one decoded page
FilterIssues(recs) == SelectSeq(recs, LAMBDA r : ~Contains(r.HTMLURL, PullKind))

\* Mutant: a full page ends the pagination.
LastPageFull(recs) == Len(recs) <= perPage

\* fetchOpenIssues: if len(issues) < perPage { break }
LastPage(recs) == Len(recs) < perPage

\* Mutant: a page is skipped.
NextPageSkips(p) == p + 2

\* fetchOpenIssues: page++
NextPage(p) == p + 1

\* http.NewRequest fails when the URL built from the repository does not parse
NewRequestOk(repo) == repo # BadRepo

FetchURL(repo, p) ==
  <<githubAPIBase, "/repos/", repo, "/issues?state=open&per_page=", ToString(perPage), "&page=", ToString(p)>>

CreateURL(repo) == <<githubAPIBase, "/repos/", repo, "/issues">>

LabelNames(labels) == [k \in 1..Len(labels) |-> labels[k].Name]

\* Mutant: the original body is left out of the new body.
CreateIssueRequestNoBody(sourceIssue) ==
  [ Title  |-> sourceIssue.Title,
    Body   |-> <<"_Copied from original issue: ">> \o sourceIssue.HTMLURL
                 \o <<"_\n\n---\n\n">>,
    Labels |-> LabelNames(sourceIssue.Labels) ]

\* createIssue: the CreateIssueRequest built from a source issue
CreateIssueRequest(sourceIssue) ==
  [ Title  |-> sourceIssue.Title,
    Body   |-> <<"_Copied from original issue: ">> \o sourceIssue.HTMLURL
                 \o <<"_\n\n---\n\n">> \o sourceIssue.Body,
    Labels |-> LabelNames(sourceIssue.Labels) ]

RECURSIVE Join(_, _)
Join(names, sep) ==
  IF Len(names) = 0 THEN <<>>
  ELSE IF Len(names) = 1 THEN <<names[1]>>
  ELSE <<names[1], sep>> \o Join(Tail(names), sep)

getLabelsString(labels) ==
  IF Len(labels) = 0 THEN <<"none">> ELSE Join(LabelNames(labels), ", ")

\* Mutant: sleeps after every created issue, the last one included.
ShouldSleepAlways(idx, list) == TRUE

\* run: if i < len(issues)-1 { time.Sleep(1 * time.Second) }
ShouldSleep(idx, list) == idx < Len(list) - 1

\* Mutant: the list is walked from its end.
NextIssueReversed(idx, list) == list[Len(list) - idx]

\* run: for i, issue := range issues (idx is the 0-based i)
NextIssue(idx, list) == list[idx + 1]

GetEvent(repo, p) == [op |-> "GET", arg |-> FetchURL(repo, p)]
PostEvent(repo, issue) ==
  [op |-> "POST", arg |-> [url |-> CreateURL(repo), req |-> CreateIssueRequest(issue)]]
SleepEvent == [op |-> "SLEEP", arg |-> 1]

\* Error returns of fetchOpenIssues after client.Do was called: client.Do
\* fails, the status is not 200, the payload does not decode.
FetchErrors == {"transport", "status", "decode"}

\* Error returns of createIssue after client.Do was called (status not 201).
\* json.Marshal of a struct of strings cannot fail and has no step.
CreateErrors == {"transport", "status", "decode"}

----------------------------------------------------------------------------
(* Initial state: the flags have been parsed *)

Init ==
  /\ pc = "main"
  /\ \E given \in BOOLEAN, value \in TokenValues, env \in TokenValues :
       token = TokenFlag(given, value, env)
  /\ dryRun \in BOOLEAN
  /\ sourceRepo \in {GoodRepo, BadRepo}
  /\ targetRepo \in {ForkRepo, BadRepo}
  /\ page = 1
  /\ allIssues = <<>>
  /\ issues = <<>>
  /\ err = "nil"
  /\ i = 0
  /\ successCount = 0
  /\ errorCount = 0
  /\ createErr = "nil"
  /\ exitCode = 0
  /\ log = <<>>
  /\ out = <<>>
  /\ pages = <<>>
  /\ outcomes = <<>>

----------------------------------------------------------------------------
(* Steps *)

\* main: missing token
MainNoToken ==
  /\ pc = "main"
  /\ token = ""
  /\ pc' = "exited"
  /\ exitCode' = 1
  /\ UNCHANGED <<token, dryRun, sourceRepo, targetRepo, page, allIssues, issues,
                 err, i, successCount, errorCount, createErr, log, out, pages,
                 outcomes>>

\* Mutant: run is called whether or not a token was given.
MainRunNoTokenCheck ==
  /\ pc = "main"
  /\ out' = Append(out, <<"Fetching", sourceRepo>>)
  /\ page' = 1
  /\ allIssues' = <<>>
  /\ pc' = "fetch"
  /\ UNCHANGED <<token, dryRun, sourceRepo, targetRepo, issues, err, i,
                 successCount, errorCount, createErr, exitCode, log, pages,
                 outcomes>>

\* main calls run; run prints "Fetching..." and calls fetchOpenIssues
MainRun ==
  /\ pc = "main"
  /\ token # ""
  /\ out' = Append(out, <<"Fetching", sourceRepo>>)
  /\ page' = 1
  /\ allIssues' = <<>>
  /\ pc' = "fetch"
  /\ UNCHANGED <<token, dryRun, sourceRepo, targetRepo, issues, err, i,
                 successCount, errorCount, createErr, exitCode, log, pages,
                 outcomes>>

\* fetchOpenIssues: http.NewRequest fails; run returns the error; main exits 1
FetchNewRequestFail ==
  /\ pc = "fetch"
  /\ ~NewRequestOk(sourceRepo)
  /\ issues' = <<>>
  /\ err' = "newrequest"
  /\ exitCode' = 1
  /\ pc' = "exited"
  /\ UNCHANGED <<token, dryRun, sourceRepo, targetRepo, page, allIssues, i,
                 successCount, errorCount, createErr, log, out, pages, outcomes>>

\* fetchOpenIssues: client.Do(req) is called for the current page
FetchSend ==
  /\ pc = "fetch"
  /\ NewRequestOk(sourceRepo)
  /\ log' = Append(log, GetEvent(sourceRepo, page))
  /\ pc' = "fetch_wait"
  /\ UNCHANGED <<token, dryRun, sourceRepo, targetRepo, page, allIssues, issues,
                 err, i, successCount, errorCount, createErr, exitCode, out,
                 pages, outcomes>>

\* Mutant: a failed page returns the error with what was accumulated so far.
FetchFailKeep ==
  /\ pc = "fetch_wait"
  /\ \E e \in FetchErrors : err' = e
  /\ issues' = allIssues
  /\ exitCode' = 1
  /\ pc' = "exited"
  /\ UNCHANGED <<token, dryRun, sourceRepo, targetRepo, page, allIssues, i,
                 successCount, errorCount, createErr, log, out, pages, outcomes>>

\* fetchOpenIssues: transport error, status # 200, or decode error:
\* return nil, err; run wraps and returns it; main prints it and exits 1
FetchFail ==
  /\ pc = "fetch_wait"
  /\ \E e \in FetchErrors : err' = e
  /\ issues' = <<>>
  /\ exitCode' = 1
  /\ pc' = "exited"
  /\ UNCHANGED <<token, dryRun, sourceRepo, targetRepo, page, allIssues, i,
                 successCount, errorCount, createErr, log, out, pages, outcomes>>

\* fetchOpenIssues: a page is decoded, filtered and appended; then either the
\* loop breaks and the list is returned to run, or page++
FetchPage ==
  /\ pc = "fetch_wait"
  /\ \E ks \in SeqsUpTo(Kinds, MaxRecords - FreeRecords(pages)), full \in BOOLEAN :
       /\ full => page < MaxPages
       /\ LET d == [full |-> full, ks |-> ks]
              recs == ResponsePage(page, d)
          IN /\ pages' = Append(pages, d)
             /\ allIssues' = allIssues \o FilterIssues(recs)
             /\ IF LastPage(recs)
                THEN /\ issues' = allIssues'
                     /\ pc' = "fetched"
                     /\ page' = page
                ELSE /\ issues' = issues
                     /\ pc' = "fetch"
                     /\ page' = NextPage(page)
  /\ UNCHANGED <<token, dryRun, sourceRepo, targetRepo, err, i, successCount,
                 errorCount, createErr, exitCode, log, out, outcomes>>

\* Mutant: the dry-run flag is ignored.
RunFetchedNoDryRun ==
  /\ pc = "fetched"
  /\ out' = out \o << <<"Found", Len(issues)>>, <<"Copying", targetRepo>> >>
  /\ successCount' = 0
  /\ errorCount' = 0
  /\ i' = 0
  /\ pc' = "loop"
  /\ UNCHANGED <<token, dryRun, sourceRepo, targetRepo, page, allIssues, issues,
                 err, createErr, exitCode, log, pages, outcomes>>

\* run: "Found N open issues", then the dry-run branch or the copy loop
RunFetched ==
  /\ pc = "fetched"
  /\ IF dryRun
     THEN /\ out' = out \o << <<"Found", Len(issues)>>, <<"DryRun">> >>
          /\ pc' = "preview"
          /\ UNCHANGED <<successCount, errorCount, i>>
     ELSE /\ out' = out \o << <<"Found", Len(issues)>>, <<"Copying", targetRepo>> >>
          /\ successCount' = 0
          /\ errorCount' = 0
          /\ i' = 0
          /\ pc' = "loop"
  /\ UNCHANGED <<token, dryRun, sourceRepo, targetRepo, page, allIssues, issues,
                 err, createErr, exitCode, log, pages, outcomes>>

\* Mutant: the dry-run branch does not return and falls into the copy loop.
PreviewFallsThrough ==
  /\ pc = "preview"
  /\ out' = out \o [k \in 1..Len(issues) |->
                      <<"Preview", issues[k].Number, issues[k].Title,
                        getLabelsString(issues[k].Labels), issues[k].HTMLURL>>]
  /\ pc' = "loop"
  /\ UNCHANGED <<token, dryRun, sourceRepo, targetRepo, page, allIssues, issues,
                 err, i, successCount, errorCount, createErr, exitCode, log, pages,
                 outcomes>>

\* run: the dry-run listing, return nil; main returns (exit status 0)
Preview ==
  /\ pc = "preview"
  /\ out' = out \o [k \in 1..Len(issues) |->
                      <<"Preview", issues[k].Number, issues[k].Title,
                        getLabelsString(issues[k].Labels), issues[k].HTMLURL>>]
  /\ exitCode' = 0
  /\ pc' = "exited"
  /\ UNCHANGED <<token, dryRun, sourceRepo, targetRepo, page, allIssues, issues,
                 err, i, successCount, errorCount, createErr, log, pages, outcomes>>

\* run: next iteration of the copy loop; createIssue builds the request and,
\* if http.NewRequest accepts the URL, sends it
LoopNext ==
  /\ pc = "loop"
  /\ i < Len(issues)
  /\ out' = Append(out, <<"Progress", i + 1, Len(issues), NextIssue(i, issues).Number,
                          NextIssue(i, issues).Title>>)
  /\ IF NewRequestOk(targetRepo)
     THEN /\ log' = Append(log, PostEvent(targetRepo, NextIssue(i, issues)))
          /\ createErr' = "nil"
          /\ pc' = "create_wait"
          /\ UNCHANGED <<i, errorCount, outcomes>>
     ELSE /\ createErr' = "newrequest"
          /\ errorCount' = errorCount + 1
          /\ outcomes' = Append(outcomes, "failed")
          /\ i' = i + 1
          /\ pc' = "loop"
          /\ UNCHANGED log
  /\ UNCHANGED <<token, dryRun, sourceRepo, targetRepo, page, allIssues, issues,
                 err, successCount, exitCode, pages>>

\* run: the range loop is exhausted
LoopEnd ==
  /\ pc = "loop"
  /\ i >= Len(issues)
  /\ pc' = "summary"
  /\ UNCHANGED <<token, dryRun, sourceRepo, targetRepo, page, allIssues, issues,
                 err, i, successCount, errorCount, createErr, exitCode, log, out,
                 pages, outcomes>>

\* Mutant: a failed creation ends the loop.
CreateFailBreak ==
  /\ pc = "create_wait"
  /\ \E e \in CreateErrors : createErr' = e
  /\ errorCount' = errorCount + 1
  /\ outcomes' = Append(outcomes, "failed")
  /\ i' = i + 1
  /\ pc' = "summary"
  /\ UNCHANGED <<token, dryRun, sourceRepo, targetRepo, page, allIssues, issues,
                 err, successCount, exitCode, log, out, pages>>

\* Mutant: a failed creation is tried again.
CreateFailRetry ==
  /\ pc = "create_wait"
  /\ \E e \in CreateErrors : createErr' = e
  /\ errorCount' = errorCount + 1
  /\ outcomes' = Append(outcomes, "failed")
  /\ i' = i
  /\ pc' = "loop"
  /\ UNCHANGED <<token, dryRun, sourceRepo, targetRepo, page, allIssues, issues,
                 err, successCount, exitCode, log, out, pages>>

\* Mutant: the delay also follows a failed creation.
CreateFailSleeps ==
  /\ pc = "create_wait"
  /\ \E e \in CreateErrors : createErr' = e
  /\ errorCount' = errorCount + 1
  /\ outcomes' = Append(outcomes, "failed")
  /\ IF ShouldSleep(i, issues)
     THEN /\ pc' = "sleep"
          /\ i' = i
     ELSE /\ pc' = "loop"
          /\ i' = i + 1
  /\ UNCHANGED <<token, dryRun, sourceRepo, targetRepo, page, allIssues, issues,
                 err, successCount, exitCode, log, out, pages>>

\* createIssue returns an error: errorCount++; continue
CreateFail ==
  /\ pc = "create_wait"
  /\ \E e \in CreateErrors : createErr' = e
  /\ errorCount' = errorCount + 1
  /\ outcomes' = Append(outcomes, "failed")
  /\ i' = i + 1
  /\ pc' = "loop"
  /\ UNCHANGED <<token, dryRun, sourceRepo, targetRepo, page, allIssues, issues,
                 err, successCount, exitCode, log, out, pages>>

\* Mutant: a created issue is also counted as failed.
CreateOkCountsBoth ==
  /\ pc = "create_wait"
  /\ createErr' = "nil"
  /\ out' = Append(out, <<"Created", i + 1>>)
  /\ successCount' = successCount + 1
  /\ errorCount' = errorCount + 1
  /\ outcomes' = Append(outcomes, "ok")
  /\ IF ShouldSleep(i, issues)
     THEN /\ pc' = "sleep"
          /\ i' = i
     ELSE /\ pc' = "loop"
          /\ i' = i + 1
  /\ UNCHANGED <<token, dryRun, sourceRepo, targetRepo, page, allIssues, issues,
                 err, exitCode, log, pages>>

\* createIssue returns the created issue: successCount++; sleep unless last
CreateOk ==
  /\ pc = "create_wait"
  /\ createErr' = "nil"
  /\ out' = Append(out, <<"Created", i + 1>>)
  /\ successCount' = successCount + 1
  /\ outcomes' = Append(outcomes, "ok")
  /\ IF ShouldSleep(i, issues)
     THEN /\ pc' = "sleep"
          /\ i' = i
     ELSE /\ pc' = "loop"
          /\ i' = i + 1
  /\ UNCHANGED <<token, dryRun, sourceRepo, targetRepo, page, allIssues, issues,
                 err, errorCount, exitCode, log, pages>>

\* time.Sleep(1 * time.Second), then the next iteration
Sleep ==
  /\ pc = "sleep"
  /\ log' = Append(log, SleepEvent)
  /\ i' = i + 1
  /\ pc' = "loop"
  /\ UNCHANGED <<token, dryRun, sourceRepo, targetRepo, page, allIssues, issues,
                 err, successCount, errorCount, createErr, exitCode, out, pages,
                 outcomes>>

\* Mutant: the exit status tells whether an item failed.
SummaryExitOnFailures ==
  /\ pc = "summary"
  /\ out' = Append(out, <<"Summary", successCount, errorCount, Len(issues)>>)
  /\ exitCode' = IF errorCount > 0 THEN 1 ELSE 0
  /\ pc' = "exited"
  /\ UNCHANGED <<token, dryRun, sourceRepo, targetRepo, page, allIssues, issues,
                 err, i, successCount, errorCount, createErr, log, pages, outcomes>>

\* run: the summary, return nil; main returns (exit status 0)
Summary ==
  /\ pc = "summary"
  /\ out' = Append(out, <<"Summary", successCount, errorCount, Len(issues)>>)
  /\ exitCode' = 0
  /\ pc' = "exited"
  /\ UNCHANGED <<token, dryRun, sourceRepo, targetRepo, page, allIssues, issues,
                 err, i, successCount, errorCount, createErr, log, pages, outcomes>>

Next ==
  \/ MainNoToken
  \/ MainRun
  \/ FetchNewRequestFail
  \/ FetchSend
  \/ FetchFail
  \/ FetchPage
  \/ RunFetched
  \/ Preview
  \/ LoopNext
  \/ LoopEnd
  \/ CreateFail
  \/ CreateOk
  \/ Sleep
  \/ Summary

Spec == Init /\ [][Next]_vars

\* The single thread of control keeps running: every blocking call returns
\* (the HTTP client has a 30 s timeout, the sleep lasts 1 s).
FairSpec == Spec /\ WF_vars(Next)

----------------------------------------------------------------------------
(* Vocabulary of the properties *)

\* The events of one kind, in the order they happened
OpsOf(op) == SelectSeq(log, LAMBDA e : e.op = op)

\* The lines of one kind written to standard output, in order
LinesOf(tag) == SelectSeq(out, LAMBDA l : l[1] = tag)

CountOf(s, v) == Cardinality({k \in DOMAIN s : s[k] = v})

\* All raw records decoded so far, in page order
RECURSIVE RawRecordsUpTo(_)
RawRecordsUpTo(n) ==
  IF n = 0 THEN <<>> ELSE RawRecordsUpTo(n - 1) \o ResponsePage(n, pages[n])

RawRecords == RawRecordsUpTo(Len(pages))

IsPullRequest(r) == Contains(r.HTMLURL, "/pull/")

PageLen(d) == Len(PageKinds(d))

\* The copy loop is running (non-dry-run run whose fetch succeeded)
InCopyLoop == pc \in {"loop", "create_wait", "sleep"}

\* A non-dry-run run whose fetch succeeded has left its copy loop
CopyFinished ==
  \/ pc = "summary"
  \/ pc = "exited" /\ token # "" /\ err = "nil" /\ ~dryRun

\* The attempt of the current iteration has begun and has not returned yet
Pending == IF pc = "create_wait" THEN 1 ELSE 0

----------------------------------------------------------------------------
(* Properties *)

\* C1: in a non-dry-run run whose fetch succeeded, a failed creation never
\* stops the copy loop: when the loop has ended every fetched issue has been
\* attempted, in order, successCount is the number of attempts that did not
\* fail, errorCount the number that failed, and the summary that is printed
\* reports these two counts and the number of fetched issues.
C1_NoAbortOnFailure ==
  CopyFinished =>
    /\ Len(outcomes) = Len(issues)
    /\ Len(LinesOf("Progress")) = Len(issues)
    /\ \A k \in 1..Len(issues) : LinesOf("Progress")[k][4] = issues[k].Number
    /\ successCount = CountOf(outcomes, "ok")
    /\ errorCount = CountOf(outcomes, "failed")
    /\ pc = "exited" =>
         out[Len(out)] = <<"Summary", CountOf(outcomes, "ok"),
                           CountOf(outcomes, "failed"), Len(issues)>>

\* C1 witness: 5 fetched issues, creation calls 2 and 4 fail, report 3 / 2 / 5
C1_Witness ==
  /\ pc = "exited"
  /\ Len(issues) = 5
  /\ outcomes = <<"ok", "failed", "ok", "failed", "ok">>
  /\ Len(OpsOf("POST")) = 5
  /\ out[Len(out)] = <<"Summary", 3, 2, 5>>

\* C2: every fetched issue yields exactly one creation attempt: throughout
\* the copy loop successCount + errorCount is the number of attempts finished
\* so far, every finished attempt adds exactly 1 to exactly one of the two
\* counters (and nothing else changes them), and when the loop has ended
\* successCount + errorCount is the number of fetched issues, the printed Total.
C2_StateInv ==
  /\ (InCopyLoop \/ CopyFinished) =>
       /\ successCount + errorCount = Len(outcomes)
       /\ Len(LinesOf("Progress")) = Len(outcomes) + Pending
       /\ Len(outcomes) <= Len(issues)
  /\ CopyFinished => successCount + errorCount = Len(issues)
  /\ (CopyFinished /\ pc = "exited") =>
       /\ Len(LinesOf("Summary")) = 1
       /\ LinesOf("Summary")[1][4] = successCount + errorCount

C2_Step ==
  /\ Len(outcomes') = Len(outcomes) + 1 =>
       \/ successCount' = successCount + 1 /\ errorCount' = errorCount
       \/ successCount' = successCount /\ errorCount' = errorCount + 1
  /\ Len(outcomes') # Len(outcomes) + 1 =>
       successCount' = successCount /\ errorCount' = errorCount /\ outcomes' = outcomes

C2_OneAttemptPerIssue == [](C2_StateInv) /\ [][C2_Step]_vars

\* C2 witness: the loop has ended after attempts of both kinds
C2_Witness ==
  /\ pc = "summary"
  /\ Len(issues) >= 3
  /\ successCount >= 1
  /\ errorCount >= 1

\* C3: with dry-run enabled no POST is ever sent: every call of the run is a
\* GET to the source repository.
C3_DryRunNoPost ==
  dryRun =>
    \A k \in 1..Len(log) :
      /\ log[k].op = "GET"
      /\ log[k].arg = FetchURL(sourceRepo, k)

\* C3 witness: a dry run over a fetch of two pages has printed its preview
C3_Witness ==
  /\ dryRun
  /\ pc = "exited"
  /\ Len(pages) >= 2
  /\ Len(issues) >= 2
  /\ Len(LinesOf("Preview")) = Len(issues)

\* C4: creation requests are sent in fetch order, one at a time: the k-th
\* POST carries the request built from the k-th fetched issue, the k-th
\* attempt is for the k-th fetched issue, an attempt begins only when every
\* earlier attempt has been recorded as success or failure, and when the loop
\* has ended every issue has had its attempt.
C4_InOrderOneAtATime ==
  LET posts == OpsOf("POST")
      attempts == LinesOf("Progress")
  IN /\ \A k \in 1..Len(posts) :
          /\ k <= Len(issues)
          /\ posts[k].arg.req = CreateIssueRequest(issues[k])
          /\ posts[k].arg.url = CreateURL(targetRepo)
     /\ \A k \in 1..Len(attempts) :
          /\ k <= Len(issues)
          /\ attempts[k][2] = k
          /\ attempts[k][4] = issues[k].Number
     /\ Len(attempts) = Len(outcomes) + Pending
     /\ NewRequestOk(targetRepo) => Len(posts) = Len(attempts)
     /\ CopyFinished => Len(attempts) = Len(issues)

\* C4 witness: the third request is in flight, the first two are recorded
C4_Witness ==
  /\ pc = "create_wait"
  /\ Len(OpsOf("POST")) = 3
  /\ Len(outcomes) = 2
  /\ outcomes[1] = "failed"
  /\ Len(pages) = 2

\* C5: the list fetchOpenIssues returns is the raw records of all pages, in
\* page order and within-page order, without the records whose URL contains
\* "/pull/": nothing else is dropped, nothing is duplicated or reordered, and
\* its length is the raw count minus the pull-request count.
C5_FetchIsFilteredConcat ==
  pc = "fetched" =>
    LET raw == RawRecords
    IN /\ issues = SelectSeq(raw, LAMBDA r : ~IsPullRequest(r))
       /\ Len(issues) = Len(raw) - Cardinality({k \in DOMAIN raw : IsPullRequest(raw[k])})
       /\ \A k \in 1..Len(issues) : ~IsPullRequest(issues[k])
       /\ \A k \in 1..(Len(issues) - 1) : issues[k].Number < issues[k + 1].Number

\* C5 witness: two pages, issues on both, pull requests among them
C5_Witness ==
  /\ pc = "fetched"
  /\ Len(pages) = 2
  /\ \E k \in 1..Len(pages[1].ks) : pages[1].ks[k] = IssueKind
  /\ \E k \in 1..Len(pages[2].ks) : pages[2].ks[k] = IssueKind
  /\ \E k \in 1..Len(pages[2].ks) : pages[2].ks[k] = PullKind
  /\ Len(issues) >= 3

\* C6: page k+1 is requested if and only if page k returned a full page of
\* perPage raw records: every page that was followed by a request was full,
\* after a short page no request follows, and after a full page (even one of
\* pull requests only) the next page is requested.
C6_PaginationRule ==
  LET gets == OpsOf("GET")
  IN /\ \A k \in 1..Len(gets) : gets[k].arg = FetchURL(sourceRepo, k)
     /\ Len(pages) <= Len(gets)
     /\ Len(gets) <= Len(pages) + 1
     /\ \A k \in 1..Len(pages) :
          IF PageLen(pages[k]) = perPage
          THEN \/ Len(gets) >= k + 1
               \/ pc = "fetch" /\ page = k + 1
          ELSE /\ Len(gets) = k
               /\ pc \notin {"fetch", "fetch_wait"}

\* C6 witness: a full page of pull requests only, then an empty page: the
\* source holds an exact multiple of the page size and the fetch has stopped
C6_Witness ==
  /\ pc = "fetched"
  /\ Len(pages) = 2
  /\ PageLen(pages[1]) = perPage
  /\ \A k \in 1..Len(pages[1].ks) : pages[1].ks[k] = PullKind
  /\ PageLen(pages[2]) = 0
  /\ Len(OpsOf("GET")) = 2
  /\ issues = <<>>

\* C7: a failure on any fetch page aborts the run: the run ends with the
\* error and exit status 1, no issues are returned, the failed GET is the
\* last call of the run, no POST is sent, and neither the count, a preview
\* nor a summary is printed.
C7_FetchFailureAborts ==
  err \in FetchErrors =>
    /\ pc = "exited"
    /\ exitCode = 1
    /\ issues = <<>>
    /\ Len(log) = Len(pages) + 1
    /\ \A k \in 1..Len(log) : log[k].op = "GET"
    /\ out = << <<"Fetching", sourceRepo>> >>
    /\ outcomes = <<>>

\* C7 witness: the second page fails after the first one brought issues
C7_Witness ==
  /\ err \in FetchErrors
  /\ Len(pages) = 1
  /\ allIssues # <<>>
  /\ ~dryRun

\* C8 as stated: a finished copy with N >= 1 successful creations has issued
\* exactly N - 1 delays.
C8_Original ==
  (CopyFinished /\ successCount >= 1) => Len(OpsOf("SLEEP")) = successCount - 1

\* C8 amended: one 1-second delay follows each successful creation that is
\* not at the last index of the fetched list, so a finished copy with N
\* successes has issued N - 1 delays if the last item's attempt succeeded and
\* N delays if it failed; every delay directly follows a creation request,
\* and no delay follows the last item's attempt.
C8_DelayPerNonLastSuccess ==
  LET sleeps == OpsOf("SLEEP")
      owed == {k \in 1..Len(outcomes) : outcomes[k] = "ok" /\ k < Len(issues)}
  IN /\ \A k \in 1..Len(log) :
          log[k].op = "SLEEP" =>
            /\ log[k].arg = 1
            /\ k > 1
            /\ log[k - 1].op = "POST"
     /\ (InCopyLoop \/ CopyFinished) =>
          Len(sleeps) = Cardinality(owed) - (IF pc = "sleep" THEN 1 ELSE 0)
     /\ CopyFinished =>
          /\ Len(sleeps) = successCount -
               (IF outcomes # <<>> /\ outcomes[Len(outcomes)] = "ok" THEN 1 ELSE 0)
          /\ log # <<>> => log[Len(log)].op # "SLEEP"

\* C8 witness: the last item failed after two successes: two delays
C8_Witness ==
  /\ pc = "exited"
  /\ outcomes = <<"ok", "ok", "failed">>
  /\ Len(OpsOf("SLEEP")) = 2

\* C9 as stated: any two consecutive creation requests are separated by a
\* 1-second delay, whatever the outcome of the earlier one.
C9_DelayBetweenRequests ==
  \A k \in 2..Len(log) : log[k].op = "POST" => log[k - 1].op # "POST"

C11_NonZeroExitOnAnyFailure ==
  (pc = "exited" /\ (token = "" \/ err # "nil" \/ errorCount > 0)) => exitCode # 0

\* C12: when the token is empty after flag parsing (no -token value and no
\* GITHUB_TOKEN), the process exits with status 1 and no call is ever made:
\* no GET, no POST, no output of run.
C12_NoTokenNoNetwork ==
  token = "" =>
    /\ pc \in {"main", "exited"}
    /\ log = <<>>
    /\ out = <<>>
    /\ issues = <<>>
    /\ pc = "exited" => exitCode = 1

\* C12 witness: the process has exited for want of a token
C12_Witness ==
  /\ token = ""
  /\ pc = "exited"
  /\ exitCode = 1
  /\ log = <<>>

\* C13: the request sent for a source issue has the issue's title, a body
\* made of the provenance text, the issue's URL, the separator and then
\* exactly the original body (which may be empty), and one label name per
\* label of the issue, in the same order; two requests sent for the same
\* issue contents are identical.
C13_RequestFromIssue ==
  LET posts == OpsOf("POST")
  IN /\ \A k \in 1..Len(posts) :
          LET req == posts[k].arg.req
              src == issues[k]
              u == Len(src.HTMLURL)
          IN /\ req.Title = src.Title
             /\ Len(req.Body) = 1 + u + 1 + Len(src.Body)
             /\ req.Body[1] = "_Copied from original issue: "
             /\ SubSeq(req.Body, 2, 1 + u) = src.HTMLURL
             /\ req.Body[2 + u] = "_\n\n---\n\n"
             /\ SubSeq(req.Body, 3 + u, Len(req.Body)) = src.Body
             /\ Len(req.Labels) = Len(src.Labels)
             /\ \A j \in 1..Len(src.Labels) : req.Labels[j] = src.Labels[j].Name
     /\ \A k, m \in 1..Len(posts) :
          issues[k] = issues[m] => posts[k].arg.req = posts[m].arg.req

\* C13 witness: requests were sent for an issue with a body and one label
\* and for an issue with an empty body and two labels
C13_Witness ==
  /\ Len(OpsOf("POST")) >= 2
  /\ issues[1].Body # <<>>
  /\ Len(issues[1].Labels) = 1
  /\ issues[2].Body = <<>>
  /\ Len(issues[2].Labels) = 2
  /\ OpsOf("POST")[2].arg.req.Labels = <<"bug", "enhancement">>

\* C14: the job runs to completion: when every call returns and the source
\* ends its listing with a short page, every run reaches its exit after at
\* most MaxPages GETs, at most one POST per fetched issue and fewer delays
\* than POSTs, and the copy loop ends once the fetch has returned.
C14_RunsToCompletion ==
  /\ <>(pc = "exited")
  /\ (pc = "fetched") ~> (pc = "exited")
  /\ [](/\ Len(OpsOf("GET")) <= MaxPages
        /\ Len(OpsOf("POST")) <= Len(issues)
        /\ Len(OpsOf("SLEEP")) <= Len(OpsOf("POST"))
        /\ i <= Len(issues))

\* C14 witness: a copy over a two-page fetch has exited after requests,
\* failures and delays
C14_Witness ==
  /\ pc = "exited"
  /\ ~dryRun
  /\ Len(OpsOf("GET")) = 2
  /\ Len(OpsOf("POST")) >= 3
  /\ Len(OpsOf("SLEEP")) >= 1
  /\ errorCount >= 1

\* The phase of the run read off the position of the thread of control
Phase ==
  CASE pc = "main" -> "START"
    [] pc \in {"fetch", "fetch_wait", "fetched"} -> "FETCHING"
    [] pc = "preview" -> "PREVIEWING"
    [] pc \in {"loop", "create_wait", "sleep", "summary"} -> "COPYING"
    [] pc = "exited" /\ (token = "" \/ err # "nil") -> "ABORTED"
    [] pc = "exited" /\ token # "" /\ err = "nil" /\ dryRun -> "PREVIEWED"
    [] pc = "exited" /\ token # "" /\ err = "nil" /\ ~dryRun -> "REPORTED"

PhaseSteps ==
  { <<"START", "FETCHING">>, <<"START", "ABORTED">>,
    <<"FETCHING", "FETCHING">>, <<"FETCHING", "ABORTED">>,
    <<"FETCHING", "PREVIEWING">>, <<"FETCHING", "COPYING">>,
    <<"PREVIEWING", "PREVIEWED">>,
    <<"COPYING", "COPYING">>, <<"COPYING", "REPORTED">> }

\* C15 as stated: every run whose fetch succeeded ends with the summary
\* printed exactly once.
C15_Original ==
  (pc = "exited" /\ token # "" /\ err = "nil") => Len(LinesOf("Summary")) = 1

\* C15 amended: a run whose fetch succeeded goes FETCHING -> COPYING ->
\* REPORTED in copy mode and FETCHING -> PREVIEWING -> end in dry-run mode
\* and nothing else; it never returns to FETCHING and never enters both
\* PREVIEWING and COPYING; the summary (succeeded, failed, number fetched) is
\* printed exactly once in REPORTED, after the last item has been handled,
\* and is never printed before REPORTED nor in a dry run.
C15_PhaseInv ==
  /\ Len(LinesOf("Summary")) = (IF Phase = "REPORTED" THEN 1 ELSE 0)
  /\ Phase = "REPORTED" =>
       /\ out[Len(out)] = <<"Summary", successCount, errorCount, Len(issues)>>
       /\ Len(outcomes) = Len(issues)
       /\ LinesOf("Preview") = <<>>
  /\ Phase = "PREVIEWED" =>
       /\ Len(LinesOf("Preview")) = Len(issues)
       /\ LinesOf("Progress") = <<>>
       /\ outcomes = <<>>
  /\ Phase = "COPYING" => ~dryRun
  /\ Phase = "PREVIEWING" => dryRun

C15_PhaseStep == <<Phase, Phase'>> \in PhaseSteps

C15_PhaseSequence == [](C15_PhaseInv) /\ [][C15_PhaseStep]_vars

\* C15 witness: a dry run over fetched issues has ended without a summary
C15_Witness ==
  /\ Phase = "PREVIEWED"
  /\ Len(pages) = 1
  /\ Len(issues) >= 2
  /\ LinesOf("Summary") = <<>>
  /\ Len(LinesOf("Preview")) = Len(issues)

\* C16: the fetch completes before any write: the k-th GET asks for page k
\* of the source (pages 1, 2, ... with none skipped or repeated), a page is
\* requested only when every earlier page has been received, every GET of
\* the run comes before every POST and every delay, and a POST is sent only
\* after the final, short page was received and the list returned to run.
C16_FetchBeforeWrite ==
  LET gets == OpsOf("GET")
  IN /\ \A k \in 1..Len(gets) : gets[k].arg[7] = ToString(k)
     /\ \A k \in 1..Len(gets) : gets[k].arg[3] = sourceRepo
     /\ \A k \in 1..Len(log) : log[k].op = "GET" <=> k <= Len(gets)
     /\ pc = "fetch_wait" => Len(gets) = Len(pages) + 1
     /\ pc = "fetch" => Len(gets) = Len(pages)
     /\ Len(log) > Len(gets) =>
          /\ Len(pages) = Len(gets)
          /\ PageLen(pages[Len(pages)]) < perPage
          /\ \A k \in 1..(Len(pages) - 1) : PageLen(pages[k]) = perPage
          /\ issues = allIssues
          /\ log[Len(gets) + 1].op = "POST"

\* C16 witness: a POST has been sent after the two pages of the fetch
C16_Witness ==
  /\ Len(OpsOf("GET")) = 2
  /\ Len(log) >= 4
  /\ log[3].op = "POST"
  /\ log[3].arg.req = CreateIssueRequest(allIssues[1])
  /\ allIssues[1].Number > perPage

\* The calls made after the fetch, by kind, in order
CopyOps ==
  LET g == Len(OpsOf("GET"))
  IN [k \in 1..(Len(log) - g) |-> log[g + k].op]

\* The calls the first n finished attempts account for when a delay follows
\* the attempt at 0-based index n - 1 exactly if it succeeded and is not last
RECURSIVE DelayRuleOps(_)
DelayRuleOps(n) ==
  IF n = 0 THEN <<>>
  ELSE DelayRuleOps(n - 1) \o <<"POST">>
         \o (IF outcomes[n] = "ok" /\ n - 1 < Len(issues) - 1
             THEN <<"SLEEP">> ELSE <<>>)

====
